---- MODULE Spec2Model ----
(***************************************************************************)
(* State-machine model of the buffered transfer engine of pathlib.go       *)
(* (buffedCopy and its callers CopyToFile, CopyToDirectory, AppendFile,    *)
(* BuffedReadFile, BuffedWriteFile) and of the IsExist / IsDir queries.    *)
(*                                                                         *)
(* buffedCopy wraps both streams in Go's bufio.Reader / bufio.Writer, so   *)
(* the behaviour of these two library types is part of the behaviour of    *)
(* the function; they are modelled from their documented algorithm.       *)
(***************************************************************************)
EXTENDS Integers, Sequences, FiniteSets, TLC

\* ---------------------------------------------------------------- bounds
MaxLen == 3       \* longest payload / file content, in bytes
MaxBuf == 3       \* largest bufferSize argument tried (0..MaxBuf)
BufioSize == 2    \* size of the bufio buffers (4096 in Go, scaled down)

Byte == {0, 1}

Payloads == UNION {[1..n -> Byte] : n \in 0..MaxLen}

\* The data the callers are given: 1, 10, 101, ... of every length.
FilePayloads == {[i \in 1..n |-> i % 2] : n \in 0..MaxLen}

Min(a, b) == IF a < b THEN a ELSE b
Max(a, b) == IF a > b THEN a ELSE b
Take(s, n) == SubSeq(s, 1, Min(n, Len(s)))
Drop(s, n) == SubSeq(s, Min(n, Len(s)) + 1, Len(s))

\* ------------------------------------------------------------ path value
\* A Path is the sequence of its components; <<>> is the directory that
\* relative one-component paths live in.
DirPaths == {<<"a">>, <<"b">>}
FilePaths == {<<"a", "f">>, <<"b", "f">>}
Paths == DirPaths \cup FilePaths

\* The paths files are opened or created at by the calls of the model:
\* the file paths and the directory that always exists.
OpenTargets == FilePaths \cup {<<"a">>}

\* filepath.Base: the last component.
Base(path) == path[Len(path)]

\* filepath.Dir: all but the last component.
Dir(path) == SubSeq(path, 1, Len(path) - 1)

\* filepath.Join of a path and one element.
Join(path, element) == Append(path, element)

\* ------------------------------------------------------------ file system
NoEntry == [kind |-> "none", data |-> <<>>]
DirEntry == [kind |-> "dir", data |-> <<>>]
FileEntry(data) == [kind |-> "file", data |-> data]

KindAt(fsys, path) == IF path = <<>> THEN "dir" ELSE fsys[path].kind

\* os.Stat: (info, err); info is the kind of the entry, "nil" when absent.
Stat(fsys, path, denied) ==
    IF denied THEN [info |-> "nil", err |-> "EACCES"]
    ELSE IF KindAt(fsys, path) = "none" THEN [info |-> "nil", err |-> "ENOENT"]
    ELSE [info |-> KindAt(fsys, path), err |-> "nil"]

\* errors.Is(err, target) for the sentinel errors of io/fs.
ErrorsIs(err, target) ==
    \/ target = "ErrNotExist" /\ err = "ENOENT"
    \/ target = "ErrExist" /\ err = "EEXIST"
    \/ target = "ErrPermission" /\ err = "EACCES"

\* Path.IsExist
IsExist(fsys, path, denied) ==
    ~ErrorsIs(Stat(fsys, path, denied).err, "ErrNotExist")

\* Path.IsDir; "panic" is the nil-interface call info.IsDir().
IsDir(fsys, path, denied) ==
    LET st == Stat(fsys, path, denied) IN
    IF ~ErrorsIs(st.err, "ErrExist") THEN "false"
    ELSE IF st.info = "nil" THEN "panic"
    ELSE IF st.info = "dir" THEN "true" ELSE "false"

\* os.MkdirAll: [fs, err].
RECURSIVE MkdirAll(_, _)
MkdirAll(fsys, path) ==
    IF KindAt(fsys, path) = "dir" THEN [fs |-> fsys, err |-> "nil"]
    ELSE IF KindAt(fsys, path) = "file" THEN [fs |-> fsys, err |-> "ENOTDIR"]
    ELSE LET up == MkdirAll(fsys, Dir(path)) IN
         IF up.err # "nil" THEN up
         ELSE [fs |-> [up.fs EXCEPT ![path] = DirEntry], err |-> "nil"]

\* os.OpenFile(flag): [fs, err]; the handle is described by the caller.
\* Flags are the set of os.O_* names that are set.
OpenFile(fsys, path, flag, denied) ==
    LET k == KindAt(fsys, path)
        writing == flag \cap {"O_WRONLY", "O_RDWR", "O_CREATE"} # {}
    IN  IF denied THEN [fs |-> fsys, err |-> "EACCES"]
        ELSE IF k = "dir" THEN
            [fs |-> fsys, err |-> IF writing THEN "EISDIR" ELSE "nil"]
        ELSE IF k = "file" THEN
            [fs |-> IF "O_TRUNC" \in flag
                    THEN [fsys EXCEPT ![path] = FileEntry(<<>>)] ELSE fsys,
             err |-> "nil"]
        ELSE IF "O_CREATE" \notin flag THEN [fs |-> fsys, err |-> "ENOENT"]
        ELSE IF KindAt(fsys, Dir(path)) = "none" THEN [fs |-> fsys, err |-> "ENOENT"]
        ELSE IF KindAt(fsys, Dir(path)) = "file" THEN [fs |-> fsys, err |-> "ENOTDIR"]
        ELSE [fs |-> [fsys EXCEPT ![path] = FileEntry(<<>>)], err |-> "nil"]

\* Path.Open = os.Open (read-only).
Open(fsys, path, denied) == OpenFile(fsys, path, {"O_RDONLY"}, denied)

\* Path.Create = os.Create (read-write, create, truncate).
Create(fsys, path, denied) ==
    OpenFile(fsys, path, {"O_RDWR", "O_CREATE", "O_TRUNC"}, denied)

\* ---------------------------------------------------------------- streams
\* kind "mem": strings.Reader / bytes.Reader / bytes.Buffer (never fails);
\* kind "file": an *os.File on a regular file; kind "dir": an *os.File on a
\* directory; kind "gen": an arbitrary io.Reader / io.Writer.
NoStream == [kind |-> "none", path |-> <<>>, data |-> <<>>, pos |-> 0, app |-> FALSE]
MemStream(data) == [NoStream EXCEPT !.kind = "mem", !.data = data]
GenStream(data) == [NoStream EXCEPT !.kind = "gen", !.data = data]
FileStream(fsys, path, app) ==
    [NoStream EXCEPT !.kind = IF KindAt(fsys, path) = "dir" THEN "dir" ELSE "file",
                     !.path = path, !.app = app]

StreamData(s, fsys) == IF s.kind = "file" THEN fsys[s.path].data ELSE s.data

Remaining(s, fsys) == Max(0, Len(StreamData(s, fsys)) - s.pos)

\* The results [n, err] one Read call with a buffer of k >= 1 bytes may give.
ReadOutcomes(s, fsys, k) ==
    LET rem == Remaining(s, fsys)
        full == IF rem = 0 THEN {[n |-> 0, err |-> "EOF"]}
                ELSE {[n |-> Min(k, rem), err |-> "nil"]}
    IN  CASE s.kind = "mem" -> full
          [] s.kind = "dir" -> {[n |-> 0, err |-> "EISDIR"]}
          [] s.kind = "file" -> full \cup {[n |-> 0, err |-> "EIO"]}
          [] OTHER ->
                (IF rem = 0 THEN {[n |-> 0, err |-> "EOF"]}
                 ELSE {[n |-> m, err |-> "nil"] : m \in 1..Min(k, rem)})
                \cup {[n |-> 0, err |-> "nil"], [n |-> 0, err |-> "EIO"]}

\* The bytes a Read that returned n delivers.
ReadBytes(s, fsys, n) == SubSeq(StreamData(s, fsys), s.pos + 1, s.pos + n)

\* The results [n, err] one Write call offered k >= 1 bytes may give.
WriteOutcomes(s, k) ==
    LET ok == {[n |-> k, err |-> "nil"]}
        failed == {[n |-> m, err |-> "EIO"] : m \in 0..(k - 1)}
        short == {[n |-> m, err |-> "nil"] : m \in 0..(k - 1)}
    IN  CASE s.kind = "mem" -> ok
          [] s.kind = "file" -> ok \cup failed
          [] OTHER -> ok \cup failed \cup short

\* File content after q is written at offset pos (a hole reads as zeros).
Overwrite(data, pos, q) ==
    [i \in 1..Max(Len(data), pos + Len(q)) |->
        IF i > pos /\ i <= pos + Len(q) THEN q[i - pos]
        ELSE IF i <= Len(data) THEN data[i] ELSE 0]

\* The destination after it accepted q.
WriteAt(s, fsys) == IF s.app THEN Len(fsys[s.path].data) ELSE s.pos

StreamAfterWrite(s, fsys, q) ==
    IF s.kind = "file" THEN [s EXCEPT !.pos = WriteAt(s, fsys) + Len(q)]
    ELSE [s EXCEPT !.data = @ \o q]

FsAfterWrite(s, fsys, q) ==
    IF s.kind = "file" /\ Len(q) > 0
    THEN [fsys EXCEPT ![s.path].data = Overwrite(@, WriteAt(s, fsys), q)]
    ELSE fsys

\* ------------------------------------------------------------------ bufio
\* A bufio.Reader / bufio.Writer: the bytes it holds and its sticky error.
EmptyBuf == [buf |-> <<>>, err |-> "nil"]

\* The underlying stream call a step made: k bytes asked or offered (0: no
\* call), n transferred, err returned.
NoIO == [n |-> 0, err |-> "nil", k |-> 0]
IO(o, k) == [n |-> o.n, err |-> o.err, k |-> k]

\* bufio.Reader.Read(p) with len(p) = k: the possible
\* [data, err, br, src, io], at most one Read of the underlying stream.
BufioRead(b, s, fsys, k) ==
    IF k = 0 THEN
        IF Len(b.buf) > 0
        THEN {[data |-> <<>>, err |-> "nil", br |-> b, src |-> s, io |-> NoIO]}
        ELSE {[data |-> <<>>, err |-> b.err, br |-> [b EXCEPT !.err = "nil"],
               src |-> s, io |-> NoIO]}
    ELSE IF Len(b.buf) > 0 THEN
        {[data |-> Take(b.buf, k), err |-> "nil",
          br |-> [b EXCEPT !.buf = Drop(@, k)], src |-> s, io |-> NoIO]}
    ELSE IF b.err # "nil" THEN
        {[data |-> <<>>, err |-> b.err, br |-> [b EXCEPT !.err = "nil"],
          src |-> s, io |-> NoIO]}
    ELSE IF k >= BufioSize THEN
        \* large read, empty buffer: read directly into p
        {[data |-> ReadBytes(s, fsys, o.n), err |-> o.err, br |-> b,
          src |-> [s EXCEPT !.pos = @ + o.n], io |-> IO(o, k)]
            : o \in ReadOutcomes(s, fsys, k)}
    ELSE
        \* one read into the internal buffer, then copy
        {IF o.n = 0
         THEN [data |-> <<>>, err |-> o.err, br |-> b, src |-> s,
               io |-> IO(o, BufioSize)]
         ELSE [data |-> Take(ReadBytes(s, fsys, o.n), k), err |-> "nil",
               br |-> [buf |-> Drop(ReadBytes(s, fsys, o.n), k), err |-> o.err],
               src |-> [s EXCEPT !.pos = @ + o.n], io |-> IO(o, BufioSize)]
            : o \in ReadOutcomes(s, fsys, BufioSize)}

\* bufio.Writer.Available
Available(w) == BufioSize - Len(w.buf)

\* bufio.Writer.Flush: the possible [bw, dst, fs, err, io].
BufioFlush(w, d, fsys) ==
    IF w.err # "nil"
    THEN {[bw |-> w, dst |-> d, fs |-> fsys, err |-> w.err, io |-> NoIO]}
    ELSE IF Len(w.buf) = 0
    THEN {[bw |-> w, dst |-> d, fs |-> fsys, err |-> "nil", io |-> NoIO]}
    ELSE {LET e == IF o.n < Len(w.buf) /\ o.err = "nil"
                   THEN "ErrShortWrite" ELSE o.err
              q == Take(w.buf, o.n)
          IN  [bw |-> IF e # "nil" THEN [buf |-> Drop(w.buf, o.n), err |-> e]
                      ELSE EmptyBuf,
               dst |-> StreamAfterWrite(d, fsys, q),
               fs |-> FsAfterWrite(d, fsys, q),
               err |-> e, io |-> IO(o, Len(w.buf))]
            : o \in WriteOutcomes(d, Len(w.buf))}

\* ------------------------------------------------------------------ state
VARIABLES
    fs,          \* the file system: Paths -> entry
    pc,          \* "idle", "read" (line 600), "write" (line 608), "done"
    op,          \* the call in progress or last returned, with its arguments
    src, dst,    \* reader and writer handed to buffedCopy
    br, bw,      \* bufferReader, bufferWriter
    pending,     \* what bufferWriter.Write has still to take of buffer[:nr]
    nr, nn,      \* bytes read this iteration; bytes Write took so far
    copiedSize,  \* running total of buffedCopy
    open,        \* stream handles currently open
    deferred,    \* handles with a pending deferred Close
    ret,         \* what the last call returned
    prev,        \* the call just before, if a BuffedWriteFile that succeeded
    hist         \* history of the current transfer (for the properties only)

vars == <<fs, pc, op, src, dst, br, bw, pending, nr, nn, copiedSize, open,
          deferred, ret, prev, hist>>

NoOp == [name |-> "none", p |-> <<>>, dest |-> <<>>, dir |-> <<>>, B |-> 0,
         data |-> <<>>, denied |-> FALSE]
NoRet == [n |-> 0, err |-> "nil", data |-> <<>>, path |-> <<>>, b |-> "none"]

\* hist: accepted = bytes the destination stream took; shortSeen = a Write
\* of the destination took fewer bytes than offered and returned no error;
\* beforeShort = bytes the destination had taken before the first such
\* Write; readAfterShort = the source was read after it; readsOk = no Read
\* of the source failed or delivered nothing without end-of-stream;
\* writesOk = every Write of the destination took all it was offered and
\* returned no error; before = the entry at the source path when the call
\* began; destKind = kind of the destination path when the call began.
NoHist == [accepted |-> 0, shortSeen |-> FALSE, beforeShort |-> 0,
           readAfterShort |-> FALSE, readsOk |-> TRUE, writesOk |-> TRUE,
           before |-> NoEntry, destKind |-> "none"]

HistRead(h, io) ==
    IF io.k = 0 THEN h
    ELSE [h EXCEPT !.readAfterShort = @ \/ h.shortSeen,
                   !.readsOk = @ /\ io.err \in {"nil", "EOF"}
                                 /\ ~(io.n = 0 /\ io.err = "nil")]

HistWrite(h, io) ==
    IF io.k = 0 THEN h
    ELSE [h EXCEPT !.accepted = @ + io.n,
                   !.shortSeen = @ \/ (io.n < io.k /\ io.err = "nil"),
                   !.beforeShort = IF ~h.shortSeen /\ io.n < io.k /\ io.err = "nil"
                                    THEN h.accepted ELSE @,
                   !.writesOk = @ /\ io.n = io.k /\ io.err = "nil"]

\* No stream call of the transfer went wrong.
Clean == hist.readsOk /\ hist.writesOk

InitFs ==
    [path \in Paths |->
        IF path = <<"a">> THEN DirEntry
        ELSE IF path = <<"a", "f">> THEN FileEntry(<<1, 0>>)
        ELSE NoEntry]

Init ==
    /\ fs = InitFs
    /\ pc = "idle"
    /\ op = NoOp
    /\ src = NoStream /\ dst = NoStream
    /\ br = EmptyBuf /\ bw = EmptyBuf
    /\ pending = <<>> /\ nr = 0 /\ nn = 0 /\ copiedSize = 0
    /\ open = {} /\ deferred = {}
    /\ ret = NoRet
    /\ prev = NoOp
    /\ hist = NoHist

\* ------------------------------------------------------------- buffedCopy
\* RunDefers as it would be with "defer source.Close()" left out.
RunDefersNoSource(handles, pendingClose) == handles \ (pendingClose \ {"source"})

\* The deferred Close calls of the returning function run.
RunDefers(handles, pendingClose) == handles \ pendingClose

\* Accumulate as it would be with "=" written for "+=".
AccumulateAssign(total, nw) == nw

\* copiedSize += uint64(nw)
Accumulate(total, nw) == total + nw

\* A return of buffedCopy, and with it of its caller (whose defers run).
Return(n, err, d) ==
    /\ pc' = "done"
    /\ ret' = [ret EXCEPT !.n = n, !.err = err,
                          !.data = IF op.name = "BuffedReadFile" THEN d.data ELSE <<>>]
    /\ open' = RunDefers(open, deferred)
    /\ deferred' = {}

\* Lines 600-607: one Read of bufferReader and the two exits after it.
ReadStep ==
    /\ pc = "read"
    /\ \E r \in BufioRead(br, src, fs, op.B) :
        /\ br' = r.br
        /\ src' = r.src
        /\ IF r.err # "nil" /\ r.err # "EOF" THEN
                /\ Return(copiedSize, r.err, dst)
                /\ hist' = HistRead(hist, r.io)
                /\ UNCHANGED <<fs, dst, bw, pending, nr, nn, copiedSize>>
           ELSE IF Len(r.data) = 0 THEN
                \* bufferWriter.Flush(), its result dropped; break; return
                \E f \in BufioFlush(bw, dst, fs) :
                    /\ bw' = f.bw /\ dst' = f.dst /\ fs' = f.fs
                    /\ Return(copiedSize, "nil", f.dst)
                    /\ hist' = HistWrite(HistRead(hist, r.io), f.io)
                    /\ UNCHANGED <<pending, nr, nn, copiedSize>>
           ELSE
                /\ pending' = r.data
                /\ nr' = Len(r.data)
                /\ nn' = 0
                /\ pc' = "write"
                /\ hist' = HistRead(hist, r.io)
                /\ UNCHANGED <<fs, dst, bw, copiedSize, open, deferred, ret>>
    /\ UNCHANGED <<op, prev>>

\* Lines 608-615: bufferWriter.Write(buffer[:nr]), one turn of its loop per
\* step, then the checks on its result.
WriteStep ==
    /\ pc = "write"
    /\ IF Len(pending) > Available(bw) /\ bw.err = "nil" THEN
            IF Len(bw.buf) = 0 THEN
                \* large write, empty buffer: write directly from p
                \E o \in WriteOutcomes(dst, Len(pending)) :
                    /\ dst' = StreamAfterWrite(dst, fs, Take(pending, o.n))
                    /\ fs' = FsAfterWrite(dst, fs, Take(pending, o.n))
                    /\ bw' = [bw EXCEPT !.err = o.err]
                    /\ nn' = nn + o.n
                    /\ pending' = Drop(pending, o.n)
                    /\ hist' = HistWrite(hist, IO(o, Len(pending)))
                    /\ UNCHANGED <<pc, nr, copiedSize, open, deferred, ret>>
            ELSE
                \* fill the buffer and flush it
                \E f \in BufioFlush([bw EXCEPT !.buf = @ \o Take(pending, Available(bw))],
                                    dst, fs) :
                    /\ dst' = f.dst /\ fs' = f.fs /\ bw' = f.bw
                    /\ nn' = nn + Available(bw)
                    /\ pending' = Drop(pending, Available(bw))
                    /\ hist' = HistWrite(hist, f.io)
                    /\ UNCHANGED <<pc, nr, copiedSize, open, deferred, ret>>
       ELSE IF bw.err # "nil" THEN
            \* Write returns (nn, b.err); buffedCopy returns (copiedSize, err)
            /\ Return(copiedSize, bw.err, dst)
            /\ UNCHANGED <<fs, dst, bw, pending, nr, nn, copiedSize, hist>>
       ELSE IF nr # nn + Len(pending) THEN
            /\ Return(copiedSize, "ErrShortWrite", dst)
            /\ bw' = [bw EXCEPT !.buf = @ \o pending]
            /\ UNCHANGED <<fs, dst, pending, nr, nn, copiedSize, hist>>
       ELSE
            /\ bw' = [bw EXCEPT !.buf = @ \o pending]
            /\ nn' = nn + Len(pending)
            /\ pending' = <<>>
            /\ copiedSize' = Accumulate(copiedSize, nn + Len(pending))
            /\ pc' = "read"
            /\ UNCHANGED <<fs, dst, nr, open, deferred, ret, hist>>
    /\ UNCHANGED <<op, src, br, prev>>

\* buffedCopy is entered: buffer, bufferReader and bufferWriter are made.
Enter(o, s, d, fsys, handles, h) ==
    /\ op' = o
    /\ src' = s /\ dst' = d
    /\ fs' = fsys
    /\ br' = EmptyBuf /\ bw' = EmptyBuf
    /\ pending' = <<>> /\ nr' = 0 /\ nn' = 0 /\ copiedSize' = 0
    /\ open' = open \cup handles
    /\ deferred' = handles
    /\ ret' = [NoRet EXCEPT !.path = IF o.name = "CopyToDirectory" THEN o.dest ELSE <<>>]
    /\ hist' = h
    /\ pc' = "read"

\* A caller returns err before it reaches buffedCopy.
Fail(o, err, fsys, handles, h) ==
    /\ op' = o
    /\ src' = NoStream /\ dst' = NoStream
    /\ fs' = fsys
    /\ br' = EmptyBuf /\ bw' = EmptyBuf
    /\ pending' = <<>> /\ nr' = 0 /\ nn' = 0 /\ copiedSize' = 0
    /\ open' = RunDefers(open \cup handles, handles)
    /\ deferred' = {}
    /\ ret' = [NoRet EXCEPT !.err = err,
                            !.path = IF o.name = "CopyToDirectory" THEN o.dest ELSE <<>>]
    /\ hist' = h
    /\ pc' = "done"

\* A new call may begin when none is running.
Ready == pc = "idle"

\* The caller takes the result: the locals of the call are gone.
Collect ==
    /\ pc = "done"
    /\ pc' = "idle"
    /\ prev' = IF op.name = "BuffedWriteFile" /\ ret.err = "nil" /\ Clean
               THEN op ELSE NoOp
    /\ op' = NoOp
    /\ src' = NoStream /\ dst' = NoStream
    /\ br' = EmptyBuf /\ bw' = EmptyBuf
    /\ pending' = <<>> /\ nr' = 0 /\ nn' = 0 /\ copiedSize' = 0
    /\ ret' = NoRet
    /\ hist' = NoHist
    /\ UNCHANGED <<fs, open, deferred>>

\* buffedCopy(reader, writer, bufferSize) on arbitrary streams.
BuffedCopy ==
    /\ Ready
    /\ \E S \in Payloads, B \in 0..MaxBuf :
        Enter([NoOp EXCEPT !.name = "buffedCopy", !.B = B, !.data = S],
              GenStream(S), GenStream(<<>>), fs, {}, NoHist)
    /\ prev' = NoOp

NextCopy == BuffedCopy \/ ReadStep \/ WriteStep \/ Collect

SpecCopy == Init /\ [][NextCopy]_vars

\* ---------------------------------------------------------------- callers
\* What a call finds when it begins.
HistAt(p, dest) ==
    [NoHist EXCEPT !.before = IF p = <<>> THEN NoEntry ELSE fs[p],
                   !.destKind = IF dest = <<>> THEN "none" ELSE KindAt(fs, dest)]

\* Lines 525-544, for the call o; d1 and d2 say whether the system refuses
\* the Open and the Create.
CopyToFileBody(o, d1, d2) ==
    LET mk == MkdirAll(fs, Dir(o.dest))
        so == Open(mk.fs, o.p, d1)
        de == Create(so.fs, o.dest, d2)
        h == HistAt(o.p, o.dest)
    IN  IF mk.err # "nil" /\ ~ErrorsIs(mk.err, "ErrExist")
        THEN Fail(o, mk.err, mk.fs, {}, h)
        ELSE IF so.err # "nil" THEN Fail(o, so.err, so.fs, {}, h)
        ELSE IF de.err # "nil" THEN Fail(o, de.err, de.fs, {"source"}, h)
        ELSE Enter(o, FileStream(de.fs, o.p, FALSE), FileStream(de.fs, o.dest, FALSE),
                   de.fs, {"source", "destination"}, h)

\* Which of the two opens of CopyToFile the system refuses, if any.
Denials == {"none", "source", "destination"}

\* Path.CopyToFile(destinationPath, bufferSize)
CopyToFile ==
    /\ Ready
    /\ \E p \in Paths, dest \in OpenTargets, B \in 0..MaxBuf, denied \in Denials :
        CopyToFileBody([NoOp EXCEPT !.name = "CopyToFile", !.p = p, !.dest = dest,
                                    !.B = B], denied = "source", denied = "destination")
    /\ prev' = NoOp

\* Path.CopyToDirectory(directoryPath, bufferSize)
CopyToDirectory ==
    /\ Ready
    /\ \E p \in Paths, dir \in DirPaths, B \in 0..MaxBuf, denied \in Denials :
        /\ Join(dir, Base(p)) \in Paths
        /\ CopyToFileBody([NoOp EXCEPT !.name = "CopyToDirectory", !.p = p, !.dir = dir,
                                       !.dest = Join(dir, Base(p)), !.B = B],
                          denied = "source", denied = "destination")
    /\ prev' = NoOp

\* Lines 555-592: the three callers that open one file with OpenFile.
OneFileBody(o, flag, denied, s, d) ==
    LET f == OpenFile(fs, o.p, flag, denied)
        h == HistAt(o.p, <<>>)
    IN  IF f.err # "nil" THEN Fail(o, f.err, f.fs, {}, h)
        ELSE Enter(o,
                   IF s.kind = "none" THEN FileStream(f.fs, o.p, FALSE) ELSE s,
                   IF d.kind = "none" THEN FileStream(f.fs, o.p, "O_APPEND" \in flag) ELSE d,
                   f.fs, {"file"}, h)

\* Path.AppendFile(data, bufferSize); the file is kept within MaxLen bytes.
AppendFile ==
    /\ Ready
    /\ \E p \in OpenTargets, data \in FilePayloads, B \in 0..MaxBuf, denied \in BOOLEAN :
        /\ Len(fs[p].data) + Len(data) <= MaxLen
        /\ OneFileBody([NoOp EXCEPT !.name = "AppendFile", !.p = p, !.data = data, !.B = B],
                       {"O_WRONLY", "O_CREATE", "O_APPEND"}, denied,
                       MemStream(data), NoStream)
    /\ prev' = NoOp

\* Path.BuffedReadFile(bufferSize)
BuffedReadFile ==
    /\ Ready
    /\ \E p \in OpenTargets, B \in 0..MaxBuf, denied \in BOOLEAN :
        /\ OneFileBody([NoOp EXCEPT !.name = "BuffedReadFile", !.p = p, !.B = B],
                       {"O_RDONLY", "O_CREATE"}, denied, NoStream, MemStream(<<>>))
        \* prev is kept while the call after a BuffedWriteFile reads its path
        /\ prev' = IF p = prev.p THEN prev ELSE NoOp

\* Path.BuffedWriteFile(data, bufferSize)
BuffedWriteFile ==
    /\ Ready
    /\ \E p \in OpenTargets, data \in FilePayloads, B \in 0..MaxBuf, denied \in BOOLEAN :
        OneFileBody([NoOp EXCEPT !.name = "BuffedWriteFile", !.p = p, !.data = data,
                                 !.B = B],
                    {"O_WRONLY", "O_CREATE"}, denied, MemStream(data), NoStream)
    /\ prev' = NoOp

\* A query returns b at once.
Answer(name, p, denied, b) ==
    /\ op' = [NoOp EXCEPT !.name = name, !.p = p, !.denied = denied]
    /\ ret' = [NoRet EXCEPT !.b = b]
    /\ hist' = HistAt(p, <<>>)
    /\ pc' = "done"
    /\ src' = NoStream /\ dst' = NoStream
    /\ br' = EmptyBuf /\ bw' = EmptyBuf
    /\ pending' = <<>> /\ nr' = 0 /\ nn' = 0 /\ copiedSize' = 0
    /\ UNCHANGED <<fs, open, deferred>>

\* Path.IsExist()
QueryIsExist ==
    /\ Ready
    /\ \E p \in Paths, denied \in BOOLEAN :
        Answer("IsExist", p, denied, IF IsExist(fs, p, denied) THEN "true" ELSE "false")
    /\ prev' = NoOp

\* Path.IsDir()
QueryIsDir ==
    /\ Ready
    /\ \E p \in Paths, denied \in BOOLEAN :
        Answer("IsDir", p, denied, IsDir(fs, p, denied))
    /\ prev' = NoOp

Next ==
    \/ CopyToFile
    \/ CopyToDirectory
    \/ AppendFile
    \/ BuffedReadFile
    \/ BuffedWriteFile
    \/ QueryIsExist
    \/ QueryIsDir
    \/ ReadStep
    \/ WriteStep
    \/ Collect

Spec == Init /\ [][Next]_vars

\* ------------------------------------------------------------- properties
TransferOps == {"CopyToFile", "AppendFile", "BuffedReadFile", "BuffedWriteFile"}

\* C1: when no stream call goes wrong, buffedCopy with bufferSize >= 1
\* leaves the destination holding exactly the source's bytes and returns
\* their number and a nil error (also for an empty source).
C1_ExactTransfer ==
    (pc = "done" /\ op.name = "buffedCopy" /\ op.B >= 1 /\ Clean)
        => (dst.data = op.data /\ ret.n = Len(op.data) /\ ret.err = "nil")

\* A payload longer than the buffer by a non-multiple went through.
C1_Witness ==
    /\ pc = "done" /\ op.name = "buffedCopy" /\ Clean
    /\ op.B > 1 /\ Len(op.data) > op.B /\ Len(op.data) % op.B # 0
    /\ dst.data = op.data /\ ret.n = Len(op.data)

\* C2: a transfer called with bufferSize 0 returns an error and 0 bytes;
\* it never returns success.
C2_ZeroBufferRejected ==
    (pc = "done" /\ op.name \in TransferOps /\ op.B = 0)
        => (ret.err # "nil" /\ ret.n = 0)

\* C3: once a Write of the destination takes fewer bytes than offered
\* without an error, buffedCopy reads the source no more, returns the
\* short-write error, and its count holds none of that Write's bytes.
C3_ShortWriteAborts ==
    (pc = "done" /\ op.name = "buffedCopy" /\ op.B >= 1 /\ hist.shortSeen)
        => (/\ ret.err = "ErrShortWrite"
            /\ ~hist.readAfterShort
            /\ ret.n <= hist.beforeShort)

\* C4: at every return of buffedCopy the count is at most what the
\* destination stream took, and an error of the destination (also one met
\* by the final Flush) is returned, not dropped.
C4_CountWithinAccepted ==
    (pc = "done" /\ op.name = "buffedCopy")
        => (ret.n <= hist.accepted /\ (bw.err # "nil" => ret.err # "nil"))

\* C5: BuffedReadFile(B) right after a BuffedWriteFile(S, B) of the same
\* path, B >= 1 and no stream call going wrong, returns S and len(S),
\* whatever was written to the path before.
C5_RoundTrip ==
    (/\ pc = "done" /\ op.name = "BuffedReadFile" /\ ret.err = "nil" /\ Clean
     /\ prev.name = "BuffedWriteFile" /\ prev.p = op.p /\ prev.B = op.B /\ op.B >= 1)
        => (ret.data = prev.data /\ ret.n = Len(prev.data))

\* C6: whenever no call is running, every handle a call opened is closed
\* again, whatever way the call returned.
C6_HandlesClosed ==
    pc \in {"idle", "done"} => (open = {} /\ deferred = {})

\* CopyToFile returned because Create failed after Open had succeeded.
C6_Witness ==
    /\ pc = "done" /\ op.name = "CopyToFile"
    /\ hist.before.kind = "file" /\ hist.destKind = "dir" /\ ret.err = "EISDIR"
    /\ open = {}

\* C7: CopyToDirectory of an existing file with bufferSize >= 1 returns
\* Join(dir, Base(source)); when it returns no error (and no stream call
\* went wrong) the file there holds what the source held before the call,
\* the source is unchanged and the count is the source's length.
C7_CopyToDirectory ==
    (pc = "done" /\ op.name = "CopyToDirectory" /\ op.B >= 1
     /\ hist.before.kind = "file")
        => (/\ ret.path = Join(op.dir, Base(op.p))
            /\ (ret.err = "nil" /\ Clean) =>
                  (/\ fs[ret.path] = hist.before
                   /\ fs[op.p] = hist.before
                   /\ ret.n = Len(hist.before.data)))

\* C8: CopyToFile onto an existing directory other than the source's own
\* copies the source file into that directory under its own name and
\* returns its length and no error (bufferSize >= 1, the system refusing
\* no open, no stream call going wrong).
C8_CopyOntoDirectory ==
    (/\ pc = "done" /\ op.name = "CopyToFile" /\ op.B >= 1
     /\ hist.before.kind = "file" /\ hist.destKind = "dir"
     /\ Join(op.dest, Base(op.p)) # op.p
     /\ ret.err # "EACCES" /\ Clean)
        => (/\ ret.err = "nil"
            /\ fs[Join(op.dest, Base(op.p))].data = hist.before.data
            /\ ret.n = Len(hist.before.data))

\* C9: IsDir answers true for an existing directory (that Stat can reach),
\* false for a missing path or a file, and never panics.
C9_IsDir ==
    (pc = "done" /\ op.name = "IsDir")
        => (/\ ret.b # "panic"
            /\ (hist.before.kind = "dir" /\ ~op.denied) => ret.b = "true"
            /\ hist.before.kind # "dir" => ret.b = "false")

\* C10: buffedCopy (bufferSize >= 1, every Write of the destination going
\* well) returns success only with the whole source consumed and written;
\* otherwise it returns the error of an abort condition.
C10_SuccessOnlyAtEnd ==
    (pc = "done" /\ op.name = "buffedCopy" /\ op.B >= 1 /\ hist.writesOk)
        => IF ret.err = "nil"
           THEN /\ Remaining(src, fs) = 0 /\ br.buf = <<>>
                /\ dst.data = op.data
           ELSE ret.err \in {"EIO", "ErrShortWrite"}

====
